---- MODULE Spec2Model ----
(***************************************************************************)
(* Model of src/bot.py: a five-step data-entry conversation (Cash, Card,   *)
(* Uber, Deliveroo, App) run by a ConversationHandler, the per-user        *)
(* user_data mapping the handlers use as their session, the numeric        *)
(* validator is_number, and the single append_row call of the last step.   *)
(*                                                                         *)
(* A text is a sequence of one-character strings, so that is_number can    *)
(* be modelled as the parse float() performs.                              *)
(***************************************************************************)
EXTENDS Integers, Sequences, FiniteSets, TLC

(***************************************************************************)
(* Bounds                                                                  *)
(***************************************************************************)
MaxLen == 3        \* longest generated text handed to is_number
NumChats == 2      \* chats the bot is present in
NumUsers == 1      \* users talking to the bot
MaxStarts == 2     \* /start commands that open a conversation in one run
MaxDrops == 1      \* handler runs in which reply_text raises, in one run

(***************************************************************************)
(* is_number (src/bot.py:135-140): float(value) inside try / bare except.  *)
(***************************************************************************)
Digits == {"0", "1", "2", "3", "4", "5", "6", "7", "8", "9"}

WhiteSpace == {" ", "\t", "\n"}

\* str.lower() on the letters that matter to float().
Lower(ch) ==
    CASE ch = "I" -> "i"
      [] ch = "N" -> "n"
      [] ch = "F" -> "f"
      [] ch = "T" -> "t"
      [] ch = "Y" -> "y"
      [] ch = "A" -> "a"
      [] OTHER -> ch

ToLower(s) == [i \in 1..Len(s) |-> Lower(s[i])]

RECURSIVE LStrip(_)
LStrip(s) ==
    IF Len(s) > 0 /\ s[1] \in WhiteSpace THEN LStrip(Tail(s)) ELSE s

RECURSIVE RStrip(_)
RStrip(s) ==
    IF Len(s) > 0 /\ s[Len(s)] \in WhiteSpace
    THEN RStrip(SubSeq(s, 1, Len(s) - 1))
    ELSE s

Strip(s) == RStrip(LStrip(s))

\* digitpart ::= digit (["_"] digit)*
IsDigitPart(s) ==
    /\ Len(s) > 0
    /\ \A i \in 1..Len(s) :
          \/ s[i] \in Digits
          \/ /\ s[i] = "_"
             /\ i > 1
             /\ i < Len(s)
             /\ s[i - 1] \in Digits
             /\ s[i + 1] \in Digits

DropSign(s) ==
    IF Len(s) > 0 /\ s[1] \in {"+", "-"} THEN Tail(s) ELSE s

\* exponent ::= ("e" | "E") ["+" | "-"] digitpart
IsExponent(s) ==
    /\ Len(s) > 1
    /\ s[1] \in {"e", "E"}
    /\ IsDigitPart(DropSign(Tail(s)))

\* pointfloat ::= [digitpart] "." digitpart | digitpart "."   or a digitpart
IsMantissa(s) ==
    \/ IsDigitPart(s)
    \/ \E p \in 1..Len(s) :
          /\ s[p] = "."
          /\ LET int == SubSeq(s, 1, p - 1)
                 frac == SubSeq(s, p + 1, Len(s))
             IN  /\ int = <<>> \/ IsDigitPart(int)
                 /\ frac = <<>> \/ IsDigitPart(frac)
                 /\ Len(int) + Len(frac) > 0

IsFloatNumber(s) ==
    \/ IsMantissa(s)
    \/ \E p \in 2..Len(s) :
          /\ IsMantissa(SubSeq(s, 1, p - 1))
          /\ IsExponent(SubSeq(s, p, Len(s)))

IsInfOrNan(s) ==
    ToLower(s) \in { <<"i", "n", "f">>,
                     <<"i", "n", "f", "i", "n", "i", "t", "y">>,
                     <<"n", "a", "n">> }

\* float(value) returns (TRUE) or raises ValueError (FALSE).
FloatParses(value) ==
    LET body == DropSign(Strip(value))
    IN  IsFloatNumber(body) \/ IsInfOrNan(body)

is_number(value) == FloatParses(value)

(***************************************************************************)
(* States (src/bot.py:129) and ConversationHandler.END.                    *)
(***************************************************************************)
CASH == 0
CARD == 1
UBER == 2
DELIVEROO == 3
APP == 4
END == -1

Steps == CASH..APP

\* The user_data key each step's handler writes.
Key(step) ==
    CASE step = CASH -> "Cash"
      [] step = CARD -> "Card"
      [] step = UBER -> "Uber"
      [] step = DELIVEROO -> "Deliveroo"
      [] step = APP -> "App"

\* The text each step's handler sends when is_number rejects the input.
ErrorReply(step) ==
    CASE step = CASH -> "Please enter a valid number for Cash."
      [] step = CARD -> "Please enter a valid number for Card."
      [] step = UBER -> "Please enter a valid number for Uber."
      [] step = DELIVEROO -> "Please enter a valid number for Deliveroo."
      [] step = APP -> "Please enter a valid number for App."

\* The prompt each step's handler sends after storing a valid input.
NextPrompt(step) ==
    CASE step = CASH -> "Enter Card amount:"
      [] step = CARD -> "Enter Uber amount:"
      [] step = UBER -> "Enter Deliveroo amount:"
      [] step = DELIVEROO -> "Enter App amount:"

StartPrompt == "Enter Cash amount:"
CancelReply == "Entry cancelled."
SavedReply == "All values saved successfully!"
SaveErrorReply == "Error saving to Google Sheet. Check logs."
NoReply == ""

(***************************************************************************)
(* The environment: chats, users, the texts users type, the clock.         *)
(***************************************************************************)
Chats == 1..NumChats
Users == 1..NumUsers

\* ConversationHandler keys a conversation by (chat id, user id).
Convs == Chats \X Users

UserOf(c) == c[2]

\* update.message.from_user.full_name
full_name(u) == <<"name", u>>

\* datetime.now().strftime("%Y-%m-%d %H:%M:%S")
Timestamps == { <<"2026-11-04 12:00:00">> }

\* Message texts: two that float() parses and one it rejects.
Texts == { <<"5">>, <<"1", "2", ".", "5">>, <<"1", "2", "x">> }

\* A dict with no keys (user_data after clear(), or before first use).
EmptyDict == [k \in {} |-> <<>>]

\* dict[key] = v
DictSet(d, key, v) == (key :> v) @@ d

VARIABLES
    state,       \* conv_handler's state of each conversation (END: none)
    user_data,   \* context.user_data: one dict per user id
    sink,        \* the latest sheet.append_row call and how it ended
    last,        \* the update dispatched last and what the bot replied
    tested,      \* the text given to is_number when it is run on its own
    verdict,     \* what is_number returned for it
    calls,       \* append_row calls per conversation since its /start
    entered,     \* texts accepted per conversation since its /start
    starts,      \* conversations opened so far
    pc,          \* where the main thread of the process is
    env,         \* the environment variables and services at startup
    drops        \* handler runs in which reply_text raised so far

vars ==
    <<state, user_data, sink, last, tested, verdict, calls, entered, starts,
      pc, env, drops>>

NoCall == [status |-> "none", conv |-> <<>>, row |-> <<>>]

NoUpdate ==
    [kind |-> "none", conv |-> <<>>, from |-> END, handled |-> FALSE,
     valid |-> FALSE, raised |-> FALSE, reply |-> NoReply, status |-> 0,
     route |-> ""]

\* An environment with which the module-level setup (lines 53-123) succeeds.
GoodEnv ==
    [TELEGRAM_BOT_TOKEN |-> "set", SHEET_NAME |-> "set",
     GOOGLE_CREDENTIALS_BASE64 |-> "valid", GOOGLE_CREDENTIALS |-> "unset",
     authorizes |-> TRUE, opens |-> TRUE]

Init ==
    /\ state = [c \in Convs |-> END]
    /\ user_data = [u \in Users |-> EmptyDict]
    /\ sink = NoCall
    /\ last = NoUpdate
    /\ tested = <<>>
    /\ verdict = "none"
    /\ calls = [c \in Convs |-> 0]
    /\ entered = [c \in Convs |-> EmptyDict]
    /\ starts = 0
    /\ pc = "polling"
    /\ env = GoodEnv
    /\ drops = 0

\* Variant: updates are dispatched concurrently with a running handler.
Idle_Concurrent == pc = "polling"

\* run_polling handles one update at a time and append_row is a blocking
\* call, so no update is dispatched while an append is in progress.
Idle == pc = "polling" /\ sink.status # "inflight"

Handled(c, kind, valid, reply) ==
    [kind |-> kind, conv |-> c, from |-> state[c], handled |-> TRUE,
     valid |-> valid, raised |-> FALSE, reply |-> reply, status |-> 0,
     route |-> ""]

\* An update no handler of conv_handler matches in the conversation's state.
NotHandled(c, kind) ==
    /\ last' = [kind |-> kind, conv |-> c, from |-> state[c],
                handled |-> FALSE, valid |-> FALSE, raised |-> FALSE,
                reply |-> NoReply, status |-> 0, route |-> ""]
    /\ UNCHANGED <<state, user_data, sink, tested, verdict, pc, env, drops,
                   calls, entered, starts>>

(***************************************************************************)
(* start (src/bot.py:146-148), the only entry point.                       *)
(***************************************************************************)
start(c) ==
    /\ state' = [state EXCEPT ![c] = CASH]
    /\ last' = Handled(c, "start", FALSE, StartPrompt)
    /\ calls' = [calls EXCEPT ![c] = 0]
    /\ entered' = [entered EXCEPT ![c] = EmptyDict]
    /\ starts' = starts + 1
    /\ UNCHANGED <<user_data, sink, tested, verdict, pc, env, drops>>

(***************************************************************************)
(* cash, card, uber, deliveroo (src/bot.py:151-192): one shape, differing  *)
(* in the key written, the replies and the state returned.                 *)
(***************************************************************************)
\* Variant: the text is stored before it is validated.
AmountStep_StoreFirst(c, step, text) ==
    /\ UNCHANGED <<tested, verdict, pc, env, drops, starts>>
    /\ user_data' = [user_data EXCEPT
                       ![UserOf(c)] = DictSet(@, Key(step), text)]
    /\ IF ~is_number(text)
       THEN /\ last' = Handled(c, "text", FALSE, ErrorReply(step))
            /\ state' = [state EXCEPT ![c] = step]
            /\ UNCHANGED entered
       ELSE /\ last' = Handled(c, "text", TRUE, NextPrompt(step))
            /\ state' = [state EXCEPT ![c] = step + 1]
            /\ entered' = [entered EXCEPT ![c] = DictSet(@, Key(step), text)]
    /\ UNCHANGED <<sink, calls>>

AmountStep(c, step, text) ==
    /\ UNCHANGED <<tested, verdict, pc, env, drops, starts>>
    /\ IF ~is_number(text)
       THEN /\ last' = Handled(c, "text", FALSE, ErrorReply(step))
            /\ state' = [state EXCEPT ![c] = step]
            /\ UNCHANGED <<user_data, entered>>
       ELSE /\ user_data' = [user_data EXCEPT
                               ![UserOf(c)] = DictSet(@, Key(step), text)]
            /\ last' = Handled(c, "text", TRUE, NextPrompt(step))
            /\ state' = [state EXCEPT ![c] = step + 1]
            /\ entered' = [entered EXCEPT ![c] = DictSet(@, Key(step), text)]
    /\ UNCHANGED <<sink, calls>>

cash(c, text) == AmountStep(c, CASH, text)

card(c, text) == AmountStep(c, CARD, text)

uber(c, text) == AmountStep(c, UBER, text)

deliveroo(c, text) == AmountStep(c, DELIVEROO, text)

(***************************************************************************)
(* app_amount (src/bot.py:195-232), up to the call of sheet.append_row.    *)
(***************************************************************************)
\* The list handed to append_row, built from the user's dict.
Row(timestamp, staff_name, d) ==
    <<timestamp, staff_name,
      d["Cash"], d["Card"], d["Uber"], d["Deliveroo"], d["App"]>>

\* The keys lines 209-212 read; a missing one raises KeyError.
RowKeys == {"Cash", "Card", "Uber", "Deliveroo"}

\* Variant: the App text is stored and written without the is_number test.
app_amount_Unchecked(c, text, timestamp) ==
    /\ UNCHANGED <<tested, verdict, pc, env, drops, starts>>
    /\ LET d == DictSet(user_data[UserOf(c)], "App", text)
       IN  /\ user_data' = [user_data EXCEPT ![UserOf(c)] = d]
           /\ entered' = [entered EXCEPT ![c] = DictSet(@, "App", text)]
           /\ UNCHANGED state
           /\ IF RowKeys \subseteq DOMAIN d
              THEN /\ sink' = [status |-> "inflight", conv |-> c,
                               row |-> Row(timestamp,
                                           full_name(UserOf(c)), d)]
                   /\ calls' = [calls EXCEPT ![c] = @ + 1]
                   /\ last' = Handled(c, "text", TRUE, NoReply)
              ELSE /\ last' = [Handled(c, "text", TRUE, NoReply)
                                 EXCEPT !.raised = TRUE]
                   /\ UNCHANGED <<sink, calls>>

app_amount(c, text, timestamp) ==
    /\ UNCHANGED <<tested, verdict, pc, env, drops, starts>>
    /\ IF ~is_number(text)
       THEN /\ last' = Handled(c, "text", FALSE, ErrorReply(APP))
            /\ state' = [state EXCEPT ![c] = APP]
            /\ UNCHANGED <<user_data, entered, sink, calls>>
       ELSE LET d == DictSet(user_data[UserOf(c)], "App", text)
            IN  /\ user_data' = [user_data EXCEPT ![UserOf(c)] = d]
                /\ entered' = [entered EXCEPT ![c] = DictSet(@, "App", text)]
                /\ UNCHANGED state
                /\ IF RowKeys \subseteq DOMAIN d
                   THEN /\ sink' = [status |-> "inflight", conv |-> c,
                                    row |-> Row(timestamp,
                                                full_name(UserOf(c)), d)]
                        /\ calls' = [calls EXCEPT ![c] = @ + 1]
                        /\ last' = Handled(c, "text", TRUE, NoReply)
                   ELSE /\ last' = [Handled(c, "text", TRUE, NoReply)
                                      EXCEPT !.raised = TRUE]
                        /\ UNCHANGED <<sink, calls>>

(***************************************************************************)
(* app_amount from the return of append_row to the end                     *)
(* (src/bot.py:226-232): ok is whether append_row returned or raised.      *)
(***************************************************************************)
\* The update app_amount is handling, with the reply it sends at the end.
FinalStep(c, reply) ==
    [kind |-> "text", conv |-> c, from |-> APP, handled |-> TRUE,
     valid |-> TRUE, raised |-> FALSE, reply |-> reply, status |-> 0,
     route |-> ""]

\* Variant: after a failed append the conversation stays at the App step.
AppendReturns_StayOnFailure(ok) ==
    /\ sink.status = "inflight"
    /\ sink' = [sink EXCEPT !.status = IF ok THEN "ok" ELSE "failed",
                            !.row = <<>>]
    /\ last' = FinalStep(sink.conv, IF ok THEN SavedReply ELSE SaveErrorReply)
    /\ IF ok
       THEN /\ user_data' = [user_data EXCEPT
                               ![UserOf(sink.conv)] = EmptyDict]
            /\ state' = [state EXCEPT ![sink.conv] = END]
            /\ entered' = [entered EXCEPT ![sink.conv] = EmptyDict]
       ELSE UNCHANGED <<user_data, state, entered>>
    /\ UNCHANGED <<tested, verdict, pc, env, drops, calls, starts>>

\* Variant: the session is cleared only when append_row returned.
AppendReturns_ClearOnSuccess(ok) ==
    /\ sink.status = "inflight"
    /\ sink' = [sink EXCEPT !.status = IF ok THEN "ok" ELSE "failed",
                            !.row = <<>>]
    /\ last' = FinalStep(sink.conv, IF ok THEN SavedReply ELSE SaveErrorReply)
    /\ user_data' = IF ok
                    THEN [user_data EXCEPT ![UserOf(sink.conv)] = EmptyDict]
                    ELSE user_data
    /\ state' = [state EXCEPT ![sink.conv] = END]
    /\ entered' = [entered EXCEPT ![sink.conv] = EmptyDict]
    /\ UNCHANGED <<tested, verdict, pc, env, drops, calls, starts>>

AppendReturns(ok) ==
    /\ sink.status = "inflight"
    /\ sink' = [sink EXCEPT !.status = IF ok THEN "ok" ELSE "failed",
                            !.row = <<>>]
    /\ last' = FinalStep(sink.conv, IF ok THEN SavedReply ELSE SaveErrorReply)
    /\ user_data' = [user_data EXCEPT ![UserOf(sink.conv)] = EmptyDict]
    /\ state' = [state EXCEPT ![sink.conv] = END]
    /\ entered' = [entered EXCEPT ![sink.conv] = EmptyDict]
    /\ UNCHANGED <<tested, verdict, pc, env, drops, calls, starts>>

(***************************************************************************)
(* cancel (src/bot.py:235-238), the only fallback.                         *)
(***************************************************************************)
\* Variant: cancel ends the conversation without clearing user_data.
cancel_KeepData(c) ==
    /\ last' = Handled(c, "cancel", FALSE, CancelReply)
    /\ state' = [state EXCEPT ![c] = END]
    /\ entered' = [entered EXCEPT ![c] = EmptyDict]
    /\ UNCHANGED <<user_data, sink, tested, verdict, pc, env, drops, calls,
                   starts>>

cancel(c) ==
    /\ user_data' = [user_data EXCEPT ![UserOf(c)] = EmptyDict]
    /\ last' = Handled(c, "cancel", FALSE, CancelReply)
    /\ state' = [state EXCEPT ![c] = END]
    /\ entered' = [entered EXCEPT ![c] = EmptyDict]
    /\ UNCHANGED <<sink, tested, verdict, pc, env, drops, calls, starts>>

(***************************************************************************)
(* conv_handler (src/bot.py:245-255): which handler an update reaches.     *)
(* Entry points are tried only when the conversation has no state          *)
(* (allow_reentry is not set); in a state, that state's handlers and then  *)
(* the fallbacks are tried.                                                *)
(***************************************************************************)
\* Variant: start is also accepted inside a conversation (allow_reentry).
StartCommand_Reentry(c) ==
    /\ Idle
    /\ starts < MaxStarts
    /\ start(c)

StartCommand(c) ==
    /\ Idle
    /\ starts < MaxStarts
    /\ state[c] = END
    /\ start(c)

StartCommandIgnored(c) ==
    /\ Idle
    /\ state[c] # END
    /\ NotHandled(c, "start")

TextMessage(c, text) ==
    /\ Idle
    /\ \/ state[c] = CASH /\ cash(c, text)
       \/ state[c] = CARD /\ card(c, text)
       \/ state[c] = UBER /\ uber(c, text)
       \/ state[c] = DELIVEROO /\ deliveroo(c, text)

AppMessage(c, text) ==
    /\ Idle
    /\ state[c] = APP
    /\ \E timestamp \in Timestamps : app_amount(c, text, timestamp)

\* Variant: a text outside a conversation is taken as the Cash amount.
TextMessageIgnored_Entry(c) ==
    /\ Idle
    /\ state[c] = END
    /\ \E text \in Texts : cash(c, text)

TextMessageIgnored(c) ==
    /\ Idle
    /\ state[c] = END
    /\ NotHandled(c, "text")

CancelCommand(c) ==
    /\ Idle
    /\ state[c] # END
    /\ cancel(c)

CancelCommandIgnored(c) ==
    /\ Idle
    /\ state[c] = END
    /\ NotHandled(c, "cancel")

(***************************************************************************)
(* health (src/bot.py:13-17), served by the thread started at lines 26-27, *)
(* before the configuration is read and for as long as the process lives.  *)
(***************************************************************************)
Routes == {"/", "/health", "/healthz"}

\* Variant: the responder reports the bot busy while a write is in progress.
health_Busy(route) ==
    IF sink.status = "inflight"
    THEN [kind |-> "http", conv |-> <<>>, from |-> END, handled |-> TRUE,
          valid |-> FALSE, raised |-> FALSE, reply |-> "BUSY",
          status |-> 503, route |-> route]
    ELSE [kind |-> "http", conv |-> <<>>, from |-> END, handled |-> TRUE,
          valid |-> FALSE, raised |-> FALSE, reply |-> "OK", status |-> 200,
          route |-> route]

\* return 'OK', 200
health(route) ==
    [kind |-> "http", conv |-> <<>>, from |-> END, handled |-> TRUE,
     valid |-> FALSE, raised |-> FALSE, reply |-> "OK", status |-> 200,
     route |-> route]

HealthRequest(route) ==
    /\ pc # "dead"
    /\ last' = health(route)
    /\ UNCHANGED <<state, user_data, sink, tested, verdict, pc, env, drops,
                   calls, entered, starts>>

Next ==
    \/ \E route \in Routes : HealthRequest(route)
    \/ \E c \in Convs : StartCommand(c)
    \/ \E c \in Convs : StartCommandIgnored(c)
    \/ \E c \in Convs, text \in Texts : TextMessage(c, text)
    \/ \E c \in Convs, text \in Texts : AppMessage(c, text)
    \/ \E c \in Convs : TextMessageIgnored(c)
    \/ \E c \in Convs : CancelCommand(c)
    \/ \E c \in Convs : CancelCommandIgnored(c)
    \/ \E ok \in BOOLEAN : AppendReturns(ok)

Spec == Init /\ [][Next]_vars

(***************************************************************************)
(* The same handlers when a reply_text call raises (the transport fails).  *)
(* Outside app_amount's try the exception leaves the handler, which then   *)
(* returns no state: the conversation stays where it was, with whatever    *)
(* the handler had done before the call.                                   *)
(***************************************************************************)
Raised(c, kind, valid) ==
    [kind |-> kind, conv |-> c, from |-> state[c], handled |-> TRUE,
     valid |-> valid, raised |-> TRUE, reply |-> NoReply, status |-> 0,
     route |-> ""]

\* start: line 147 raises.
start_raises(c) ==
    /\ last' = Raised(c, "start", FALSE)
    /\ drops' = drops + 1
    /\ UNCHANGED <<state, user_data, sink, tested, verdict, pc, env, calls,
                   entered, starts>>

\* cash .. app_amount: line 154 (165, 176, 187, 198) raises.
rejected_raises(c, text) ==
    /\ ~is_number(text)
    /\ last' = Raised(c, "text", FALSE)
    /\ drops' = drops + 1
    /\ UNCHANGED <<state, user_data, sink, tested, verdict, pc, env, calls,
                   entered, starts>>

\* cash .. deliveroo: line 158 (169, 180, 191) raises, after the store.
accepted_raises(c, step, text) ==
    /\ is_number(text)
    /\ user_data' = [user_data EXCEPT
                       ![UserOf(c)] = DictSet(@, Key(step), text)]
    /\ entered' = [entered EXCEPT ![c] = DictSet(@, Key(step), text)]
    /\ last' = Raised(c, "text", TRUE)
    /\ drops' = drops + 1
    /\ UNCHANGED <<state, sink, tested, verdict, pc, env, calls, starts>>

\* cancel: line 237 raises, after the clear.
cancel_raises(c) ==
    /\ user_data' = [user_data EXCEPT ![UserOf(c)] = EmptyDict]
    /\ last' = Raised(c, "cancel", FALSE)
    /\ drops' = drops + 1
    /\ UNCHANGED <<state, sink, tested, verdict, pc, env, calls, entered,
                   starts>>

\* app_amount, lines 216-232: append_row returned (ok) or raised; the reply
\* of line 226 raises inside the try, so line 229 runs in both cases; sent
\* is whether the reply of line 229 is delivered. When it is not, the
\* exception leaves the handler before lines 231-232.
AppendReturnsReplyRaises(ok, sent) ==
    /\ sink.status = "inflight"
    /\ ok \/ ~sent
    /\ drops < MaxDrops
    /\ drops' = drops + 1
    /\ sink' = [sink EXCEPT !.status = IF ok THEN "ok" ELSE "failed",
                            !.row = <<>>]
    /\ IF sent
       THEN /\ last' = FinalStep(sink.conv, SaveErrorReply)
            /\ user_data' = [user_data EXCEPT
                               ![UserOf(sink.conv)] = EmptyDict]
            /\ state' = [state EXCEPT ![sink.conv] = END]
            /\ entered' = [entered EXCEPT ![sink.conv] = EmptyDict]
       ELSE /\ last' = [FinalStep(sink.conv, NoReply) EXCEPT !.raised = TRUE]
            /\ UNCHANGED <<user_data, state, entered>>
    /\ UNCHANGED <<tested, verdict, pc, env, calls, starts>>

StartCommandReplyRaises(c) ==
    /\ Idle
    /\ drops < MaxDrops
    /\ state[c] = END
    /\ start_raises(c)

TextMessageReplyRaises(c, text) ==
    /\ Idle
    /\ drops < MaxDrops
    /\ state[c] \in Steps
    /\ \/ rejected_raises(c, text)
       \/ state[c] # APP /\ accepted_raises(c, state[c], text)

CancelCommandReplyRaises(c) ==
    /\ Idle
    /\ drops < MaxDrops
    /\ state[c] # END
    /\ cancel_raises(c)

NextSend ==
    \/ Next
    \/ \E c \in Convs : StartCommandReplyRaises(c)
    \/ \E c \in Convs, text \in Texts : TextMessageReplyRaises(c, text)
    \/ \E c \in Convs : CancelCommandReplyRaises(c)
    \/ \E ok, sent \in BOOLEAN : AppendReturnsReplyRaises(ok, sent)

SpecSend == Init /\ [][NextSend]_vars

(***************************************************************************)
(* Startup (src/bot.py:53-123, 257-261): the module-level statements the   *)
(* main thread runs, in order, before run_polling. An exception that is    *)
(* not caught ends the process.                                            *)
(***************************************************************************)
\* What os.environ.get returns is falsy when the variable is unset or ''.
Truthy(v) == v \notin {"unset", "empty"}

Envs ==
    [TELEGRAM_BOT_TOKEN : {"unset", "empty", "set"},
     SHEET_NAME : {"unset", "empty", "set"},
     GOOGLE_CREDENTIALS_BASE64 : {"unset", "invalid", "valid"},
     GOOGLE_CREDENTIALS : {"unset", "invalid", "valid"},
     authorizes : BOOLEAN,
     opens : BOOLEAN]

\* The main thread moves on; nothing else changes.
Goto(to) ==
    /\ pc' = to
    /\ UNCHANGED <<state, user_data, sink, last, tested, verdict, calls,
                   entered, starts, env, drops>>

\* Lines 53-55.
LoadToken ==
    /\ pc = "token"
    /\ Goto(IF Truthy(env.TELEGRAM_BOT_TOKEN) THEN "sheet_name" ELSE "dead")

\* Lines 57-59.
LoadSheetName ==
    /\ pc = "sheet_name"
    /\ Goto(IF Truthy(env.SHEET_NAME) THEN "credentials" ELSE "dead")

\* The blob get_google_credentials reads: base64 first, raw JSON otherwise.
CredentialsRead(e) ==
    IF Truthy(e.GOOGLE_CREDENTIALS_BASE64)
    THEN e.GOOGLE_CREDENTIALS_BASE64
    ELSE e.GOOGLE_CREDENTIALS

\* Lines 70-96: returns credentials (TRUE) or raises (FALSE).
get_google_credentials(e) == CredentialsRead(e) = "valid"

\* Line 100, inside the try of lines 98-123, which re-raises.
GetCredentials ==
    /\ pc = "credentials"
    /\ Goto(IF get_google_credentials(env) THEN "authorize" ELSE "dead")

\* Line 107.
Authorize ==
    /\ pc = "authorize"
    /\ Goto(IF env.authorizes THEN "openall" ELSE "dead")

\* Lines 110-115: a failure to list the sheets is printed and ignored.
ListSheets(ok) ==
    /\ pc = "openall"
    /\ Goto("open")

\* Variant: a failure to open the sheet is printed and ignored as well.
OpenSheet_Swallow ==
    /\ pc = "open"
    /\ Goto("build")

\* Lines 117-123.
OpenSheet ==
    /\ pc = "open"
    /\ Goto(IF env.opens THEN "build" ELSE "dead")

\* Lines 257-261.
RunPolling ==
    /\ pc = "build"
    /\ Goto("polling")

InitBoot ==
    /\ state = [c \in Convs |-> END]
    /\ user_data = [u \in Users |-> EmptyDict]
    /\ sink = NoCall
    /\ last = NoUpdate
    /\ tested = <<>>
    /\ verdict = "none"
    /\ calls = [c \in Convs |-> 0]
    /\ entered = [c \in Convs |-> EmptyDict]
    /\ starts = 0
    /\ pc = "token"
    /\ env \in Envs
    /\ drops = 0

NextBoot ==
    \/ LoadToken
    \/ LoadSheetName
    \/ GetCredentials
    \/ Authorize
    \/ \E ok \in BOOLEAN : ListSheets(ok)
    \/ OpenSheet
    \/ RunPolling
    \/ Next

SpecBoot == InitBoot /\ [][NextBoot]_vars

(***************************************************************************)
(* is_number on its own: one call on a text drawn from Inputs.             *)
(***************************************************************************)
Alphabet == {"1", "2", ".", "-", "+", "a", "n", "i", "f", "x"}

Inputs ==
    UNION { [1..n -> Alphabet] : n \in 0..MaxLen }
      \cup { <<"1", "2", ".", "5">>,
             <<"-", "3", ".", "2">>,
             <<"i", "n", "f", "i", "n", "i", "t", "y">>,
             <<"-", "i", "n", "f">>,
             <<"N", "a", "N">> }

InitNum ==
    /\ state = [c \in Convs |-> END]
    /\ user_data = [u \in Users |-> EmptyDict]
    /\ sink = NoCall
    /\ last = NoUpdate
    /\ tested \in Inputs
    /\ verdict = "none"
    /\ calls = [c \in Convs |-> 0]
    /\ entered = [c \in Convs |-> EmptyDict]
    /\ starts = 0
    /\ pc = "polling"
    /\ env = GoodEnv
    /\ drops = 0

\* try: float(value); return True / except: return False
Validate ==
    /\ verdict = "none"
    /\ verdict' = IF is_number(tested) THEN "True" ELSE "False"
    /\ UNCHANGED <<state, user_data, sink, last, tested, pc, env, drops,
                   calls, entered, starts>>

NextNum == Validate

SpecNum == InitNum /\ [][NextNum]_vars

(***************************************************************************)
(* Notions the properties below use.                                       *)
(***************************************************************************)
\* The session of a conversation is the user_data dict its handlers get.
Session(c) == user_data[UserOf(c)]

AllKeys == RowKeys \cup {"App"}

\* The keys a conversation stores before it reaches a step.
KeysBefore(step) == { Key(k) : k \in CASH..(step - 1) }

\* The update handled last was a text that is_number accepted / rejected.
AcceptedText == last.kind = "text" /\ last.handled /\ last.valid
RejectedText == last.kind = "text" /\ last.handled /\ ~last.valid

\* A decimal numeral: optional sign, digits, at most one point.
DenotesFiniteReal(s) ==
    LET b == DropSign(s)
    IN  /\ \A i \in 1..Len(b) : b[i] \in Digits \cup {"."}
        /\ \E i \in 1..Len(b) : b[i] \in Digits
        /\ Cardinality({ i \in 1..Len(b) : b[i] = "." }) <= 1

(***************************************************************************)
(* C1: an accepted text at Cash, Card, Uber or Deliveroo moves the         *)
(* conversation to the next state without an append_row call, and an       *)
(* accepted text at App issues the conversation's one append_row call,     *)
(* after which the conversation is ended.                                  *)
(***************************************************************************)
C1_FiveValidTextsAppendOnce ==
    AcceptedText =>
        IF last.from = APP
        THEN /\ calls[last.conv] = 1
             /\ \/ sink.status = "inflight" /\ sink.conv = last.conv
                \/ state[last.conv] = END
        ELSE /\ state[last.conv] = last.from + 1
             /\ calls[last.conv] = 0

(***************************************************************************)
(* C2: a text is_number rejects, in any of the five states, changes        *)
(* neither the state of the conversation nor any user_data nor the sink;   *)
(* the bot only sends that state's error reply.                            *)
(***************************************************************************)
C2_RejectedTextChangesNothing ==
    [][ (last'.kind = "text" /\ last'.handled /\ ~last'.valid) =>
           /\ state' = state
           /\ user_data' = user_data
           /\ sink' = sink
           /\ calls' = calls
           /\ last'.from \in Steps
           /\ last'.reply = ErrorReply(last'.from) ]_vars

C2_Witness ==
    /\ RejectedText
    /\ last.from = APP
    /\ state[last.conv] = APP
    /\ DOMAIN Session(last.conv) = RowKeys
    /\ last.reply = ErrorReply(APP)

C5_StartAlwaysEntersCash ==
    last.kind = "start" => state[last.conv] = CASH

(***************************************************************************)
(* C6: right after a start command the conversation's session holds no     *)
(* field.                                                                  *)
(***************************************************************************)
C6_StartClearsSession ==
    last.kind = "start" => DOMAIN Session(last.conv) = {}

(***************************************************************************)
(* C7: an update handled in one conversation changes neither the state nor *)
(* the session of any other conversation that is in progress.              *)
(***************************************************************************)
C7_ConversationsIsolated ==
    [][ \A d \in Convs :
           (last'.handled /\ last'.conv \in Convs /\ d # last'.conv
              /\ state[d] # END /\ state[last'.conv] # END) =>
               /\ state'[d] = state[d]
               /\ user_data'[UserOf(d)] = user_data[UserOf(d)] ]_vars

(***************************************************************************)
(* C8: the row handed to append_row is (timestamp, sender's name, cash,    *)
(* card, uber, deliveroo, app), the five amounts being the texts accepted  *)
(* at the five steps of this conversation.                                 *)
(***************************************************************************)
C8_RowIsWhatWasEntered ==
    sink.status = "inflight" =>
        /\ Len(sink.row) = 7
        /\ sink.row[1] \in Timestamps
        /\ sink.row[2] = full_name(UserOf(sink.conv))
        /\ DOMAIN entered[sink.conv] = AllKeys
        /\ sink.row[3] = entered[sink.conv]["Cash"]
        /\ sink.row[4] = entered[sink.conv]["Card"]
        /\ sink.row[5] = entered[sink.conv]["Uber"]
        /\ sink.row[6] = entered[sink.conv]["Deliveroo"]
        /\ sink.row[7] = entered[sink.conv]["App"]

(***************************************************************************)
(* C9: is_number returns True exactly for the texts that denote a finite   *)
(* real number, and always returns.                                        *)
(***************************************************************************)
C9_ValidatorIffFiniteReal ==
    verdict # "none" =>
        /\ verdict \in {"True", "False"}
        /\ verdict = "True" <=> DenotesFiniteReal(tested)

(***************************************************************************)
(* C10: in every state, the session of a conversation holds exactly the    *)
(* fields of the steps the conversation has passed: all five only while    *)
(* its append_row call is in progress, none once it has ended.             *)
(***************************************************************************)
C10_SessionMatchesState ==
    \A c \in Convs :
        (state[c] # END \/ (last.handled /\ last.conv = c)) =>
            DOMAIN Session(c) =
                IF state[c] = END THEN {}
                ELSE IF sink.status = "inflight" /\ sink.conv = c THEN AllKeys
                ELSE KeysBefore(state[c])

(***************************************************************************)
(* C12: a request on any of the three routes is answered 200 'OK' in       *)
(* every state of the bot, a write in progress or failed included, and     *)
(* answering it changes no conversation state, session or sink.            *)
(***************************************************************************)
C12_HealthIndependent ==
    /\ [](\A route \in Routes : ENABLED HealthRequest(route))
    /\ [][ last'.kind = "http" =>
              /\ last'.route \in Routes
              /\ last'.status = 200
              /\ last'.reply = "OK"
              /\ UNCHANGED <<state, user_data, sink, calls>> ]_vars

C12_Witness ==
    /\ last.kind = "http"
    /\ last.route = "/healthz"
    /\ last.status = 200
    /\ last.reply = "OK"
    /\ sink.status = "inflight"
    /\ DOMAIN Session(sink.conv) = AllKeys

(***************************************************************************)
(* C11: with a missing bot token or sheet name, credentials that are       *)
(* missing or do not parse or authorize, or a spreadsheet that does not    *)
(* open, the process never reaches run_polling: no update is ever          *)
(* dispatched and append_row is never called.                              *)
(***************************************************************************)
ConfigBad(e) ==
    \/ e.TELEGRAM_BOT_TOKEN \in {"unset", "empty"}
    \/ e.SHEET_NAME \in {"unset", "empty"}
    \/ CredentialsRead(e) \in {"unset", "invalid"}
    \/ ~e.authorizes
    \/ ~e.opens

C11_BadConfigNeverServes ==
    ConfigBad(env) =>
        /\ pc \notin {"build", "polling"}
        /\ last.kind \in {"none", "http"}
        /\ sink = NoCall
        /\ \A c \in Convs : state[c] = END /\ calls[c] = 0
        /\ \A u \in Users : DOMAIN user_data[u] = {}

C11_Witness ==
    /\ pc = "dead"
    /\ Truthy(env.TELEGRAM_BOT_TOKEN)
    /\ Truthy(env.SHEET_NAME)
    /\ get_google_credentials(env)
    /\ env.authorizes
    /\ ~env.opens
    /\ sink = NoCall
    /\ \A c \in Convs : state[c] = END

C14_OnlyTableTransitions ==
    [][ \A c \in Convs :
           state'[c] # state[c] =>
              \/ /\ state[c] = END
                 /\ state'[c] = CASH
                 /\ last'.kind = "start"
                 /\ last'.conv = c
              \/ /\ state[c] \in CASH..DELIVEROO
                 /\ state'[c] = state[c] + 1
                 /\ last'.kind = "text"
                 /\ last'.valid
                 /\ last'.conv = c
              \/ /\ state[c] = APP
                 /\ state'[c] = END
                 /\ sink.status = "inflight"
                 /\ sink.conv = c
                 /\ sink'.status \in {"ok", "failed"}
              \/ /\ state[c] \in Steps
                 /\ state'[c] = END
                 /\ last'.kind = "cancel"
                 /\ last'.conv = c ]_vars

\* A conversation that was completed and then started again.
C14_Witness ==
    /\ last.kind = "start"
    /\ last.handled
    /\ state[last.conv] = CASH
    /\ sink.status \in {"ok", "failed"}
    /\ sink.conv = last.conv

(***************************************************************************)
(* C15: while an append_row call is in progress no update is dispatched:   *)
(* until the call returns or raises, no state, session or sink changes,    *)
(* and the only other thing served is a health request.                    *)
(***************************************************************************)
C15_NothingHandledDuringWrite ==
    [][ sink.status = "inflight" =>
           \/ /\ sink'.status \in {"ok", "failed"}
              /\ sink'.conv = sink.conv
              /\ last'.conv = sink.conv
           \/ /\ last'.kind = "http"
              /\ UNCHANGED <<state, user_data, sink, calls>> ]_vars

\* A write in progress while the user's other conversation is under way.
C15_Witness ==
    /\ sink.status = "inflight"
    /\ state[sink.conv] = APP
    /\ DOMAIN Session(sink.conv) = AllKeys
    /\ \E d \in Convs : d # sink.conv /\ state[d] # END

(***************************************************************************)
(* C16: a text or a cancel command that arrives while the conversation is  *)
(* ended reaches no handler: no state, session or sink changes and no      *)
(* reply is sent.                                                          *)
(***************************************************************************)
C16_EndedConversationIgnoresInput ==
    [][ (last'.kind \in {"text", "cancel"} /\ state[last'.conv] = END) =>
           /\ ~last'.handled
           /\ last'.reply = NoReply
           /\ UNCHANGED <<state, user_data, sink, calls>> ]_vars

\* A text sent after the conversation was completed.
C16_Witness ==
    /\ last.kind = "text"
    /\ ~last.handled
    /\ last.reply = NoReply
    /\ state[last.conv] = END
    /\ sink.status = "ok"
    /\ sink.conv = last.conv

(***************************************************************************)
(* C18: every row handed to append_row has the five amounts, and each of   *)
(* them is a text is_number accepts, whichever way the conversations of    *)
(* the users interleave.                                                   *)
(***************************************************************************)
C18_RowAmountsValidated ==
    sink.status = "inflight" =>
        /\ Len(sink.row) = 7
        /\ \A i \in 3..7 : sink.row[i] \in Texts /\ is_number(sink.row[i])

\* A row whose cash amount was typed in the user's other conversation.
C18_Witness ==
    /\ sink.status = "inflight"
    /\ Len(sink.row) = 7
    /\ sink.row[3] # entered[sink.conv]["Cash"]
    /\ is_number(sink.row[3])

(***************************************************************************)
(* C17: the failure message is sent only when append_row failed; after a   *)
(* successful append the user is never sent it, also when the success      *)
(* reply could not be sent.                                                *)
(***************************************************************************)
C17_FailureMessageOnlyOnFailure ==
    last.reply = SaveErrorReply =>
        /\ sink.conv = last.conv
        /\ sink.status = "failed"

====
